---- MODULE Spec2Model ----
(***************************************************************************)
(* Byterun object model: Function, Cell, Frame, Generator (pyobj.py) and   *)
(* the file loader run_python_file (execfile.py).                          *)
(*                                                                         *)
(* The dispatch engine (byterun/pyvm2.py: make_frame, run_frame,           *)
(* resume_frame, the opcodes) is imported by execfile.py and called by     *)
(* pyobj.py; the definitions that stand for it follow the design document. *)
(***************************************************************************)
EXTENDS Integers, Sequences, FiniteSets, TLC

VARIABLES
    frames,        \* heap of Frame objects; a frame's identity is its index
    cellContents,  \* heap of Cell objects: Cell.contents by cell identity
    funcs,         \* the Function objects built so far
    gens,          \* heap of Generator objects
    callStack,     \* vm.frames: the frames being run, innermost last
    globalsTab,    \* the globals mappings: their "__builtins__" entry
    last,          \* what the last operation did and gave back
    lnotab, firstlineno, lasti,          \* line_number: f_code.co_lnotab, co_firstlineno, f_lasti
    ln_pc, ln_i, byte_num, line_num,     \* line_number: position and locals
    sysmod, sysargv, syspath,            \* sys.modules["__main__"], sys.argv, sys.path
    ld_pc, ld_old, ld_entry, ld_args, ld_exc  \* run_python_file: position, saved values, entry snapshot

vmVars == <<frames, cellContents, funcs, gens, callStack, globalsTab, last>>
lnVars == <<lnotab, firstlineno, lasti, ln_pc, ln_i, byte_num, line_num>>
ldVars == <<sysmod, sysargv, syspath, ld_pc, ld_old, ld_entry, ld_args, ld_exc>>
vars == <<vmVars, lnVars, ldVars>>

-----------------------------------------------------------------------------
(* Bounds *)
MaxFrames == 4
MaxFuncs == 2
MaxGens == 1
MaxStack == 1
MaxDepth == 2
MaxPairs == 3
MaxPath == 2

-----------------------------------------------------------------------------
(* Values and code objects *)
None == "None"
VarNames == {"x"}
ArgVals == {"v1"}
StoreVals == {"v2"}
SendVals == {None, "s1"}
\* the numbers of positional arguments calls are made with
ArgCounts == 0..3
GlobalsIds == {"GA", "GB"}

CO_GENERATOR == 32

\* The compiled units of the interpreted program.  body is the generator
\* code's instruction stream reduced to its yields, return and raise.
Code(name) ==
    CASE name = "module" ->
           [co_flags |-> 64, co_argcount |-> 0, ndefaults |-> 0,
            co_cellvars |-> <<>>, co_freevars |-> <<>>,
            defines |-> {"outer", "plain", "gen3", "genfail"}, body |-> <<>>]
      [] name = "outer" ->
           [co_flags |-> 3, co_argcount |-> 2, ndefaults |-> 1,
            co_cellvars |-> <<"x">>, co_freevars |-> <<>>,
            defines |-> {"inner"}, body |-> <<>>]
      [] name = "inner" ->
           [co_flags |-> 19, co_argcount |-> 0, ndefaults |-> 0,
            co_cellvars |-> <<>>, co_freevars |-> <<"x">>,
            defines |-> {}, body |-> <<>>]
      [] name = "plain" ->
           [co_flags |-> 67, co_argcount |-> 1, ndefaults |-> 1,
            co_cellvars |-> <<>>, co_freevars |-> <<>>,
            defines |-> {}, body |-> <<>>]
      [] name = "gen3" ->
           [co_flags |-> 99, co_argcount |-> 0, ndefaults |-> 0,
            co_cellvars |-> <<>>, co_freevars |-> <<>>,
            defines |-> {},
            body |-> << <<"yield", "v1">>, <<"yield", "v2">>,
                        <<"yield", "v3">>, <<"return", "done">> >>]
      [] name = "genfail" ->
           [co_flags |-> 99, co_argcount |-> 0, ndefaults |-> 0,
            co_cellvars |-> <<>>, co_freevars |-> <<>>,
            defines |-> {},
            body |-> << <<"yield", "v1">>, <<"raise", "boom">> >>]

CodeNames == {"module", "outer", "inner", "plain", "gen3", "genfail"}
\* the functions of the closure program and of the generator program
ClosureCodes == {"outer", "inner"}
GeneratorCodes == {"plain", "gen3", "genfail"}

IsGeneratorCode(name) == (Code(name).co_flags \div CO_GENERATOR) % 2 = 1

Range(s) == {s[i] : i \in DOMAIN s}

-----------------------------------------------------------------------------
(* Builtins objects *)
Absent == [kind |-> "absent", id |-> 0]
BuiltinsEntries ==
    {Absent, [kind |-> "dict", id |-> 1], [kind |-> "module", id |-> 2]}
\* the __dict__ of a module-like builtins value
ModuleDict(m) == [kind |-> "dict", id |-> m.id + 10]
\* {"None": None}, a new mapping made by the frame with identity fid
DefaultBuiltins(fid) == [kind |-> "default", id |-> fid]

NoCells == [none |-> TRUE, map |-> [v \in VarNames |-> 0]]
EmptyCells == [none |-> FALSE, map |-> [v \in VarNames |-> 0]]
\* truth value of a cells table: None and {} are false
CellsTruthy(c) == ~c.none /\ \E v \in VarNames : c.map[v] # 0

NoFunc == [func_code |-> "", func_globals |-> "", func_closure |-> [v \in VarNames |-> 0]]

\* The observation of one operation: which it was (op), how it ended (kind),
\* the value it gave back or raised with (val), the generator, frame and
\* function it was about, the number of call arguments, the value sent, and
\* whether it entered the engine (run_frame / resume_frame).
NoLast == [op |-> "init", kind |-> "ok", val |-> None, gen |-> 0, frame |-> 0,
           entered |-> FALSE, fn |-> NoFunc, nargs |-> 0, sent |-> None]

-----------------------------------------------------------------------------
(* Cell *)
\* Cell.__init__: new Cells holding the values, appended to the cell heap
CellsNew(heap, values) == heap \o values
\* Cell.get
CellGet(heap, c) == heap[c]
\* Cell.set
CellSet(heap, c, value) == [heap EXCEPT ![c] = value]

-----------------------------------------------------------------------------
(* Frame.__init__ *)

\* the test made on the mappings' contents (==) instead of their identity
SharesEqualGlobals(f_globals, f_back) ==
    f_back # 0 /\ globalsTab[frames[f_back].f_globals] = globalsTab[f_globals]

\* "if f_back and f_back.f_globals is f_globals": identity of the globals mapping
SharesGlobals(f_globals, f_back) ==
    f_back # 0 /\ frames[f_back].f_globals = f_globals

\* f_globals["__builtins__"], a module-like value replaced by its __dict__;
\* KeyError gives the minimal mapping made for this frame
ResolveBuiltins(f_globals, fid) ==
    LET b == globalsTab[f_globals] IN
    IF b.kind = "absent" THEN DefaultBuiltins(fid)
    ELSE IF b.kind = "module" THEN ModuleDict(b)
    ELSE b

FrameBuiltins(f_globals, f_back, fid) ==
    IF SharesGlobals(f_globals, f_back)
    THEN frames[f_back].f_builtins
    ELSE ResolveBuiltins(f_globals, fid)

IndexOf(seq, v) == CHOOSE i \in DOMAIN seq : seq[i] = v

\* The co_cellvars block.  st is [exc, self, back, heap]: the exception raised
\* so far (if any), self.cells, f_back.cells and the cell heap.
FrameCellvars(f_code, f_locals, f_back, st) ==
    LET cv == Code(f_code).co_cellvars
        base == Len(st.heap)
        fresh(v) == base + IndexOf(cv, v)
    IN
    IF cv = <<>> THEN [st EXCEPT !.self = NoCells]
    ELSE IF f_back = 0 THEN [st EXCEPT !.exc = "AttributeError", !.self = EmptyCells]
    ELSE [exc |-> st.exc,
          self |-> [none |-> FALSE,
                    map |-> [v \in VarNames |->
                               IF v \in Range(cv) THEN fresh(v) ELSE 0]],
          back |-> [none |-> FALSE,
                    map |-> [v \in VarNames |->
                               IF v \in Range(cv) THEN fresh(v)
                               ELSE IF CellsTruthy(st.back) THEN st.back.map[v]
                               ELSE 0]],
          heap |-> CellsNew(st.heap, [i \in 1..Len(cv) |-> f_locals[cv[i]]])]

\* The co_freevars block: the cells are taken from f_back.cells.
FrameFreevars(f_code, f_back, st) ==
    LET fv == Code(f_code).co_freevars
        mine == IF CellsTruthy(st.self) THEN st.self ELSE EmptyCells
    IN
    IF fv = <<>> \/ st.exc # "" THEN st
    ELSE IF f_back = 0 THEN [st EXCEPT !.exc = "AttributeError", !.self = mine]
    ELSE IF ~CellsTruthy(st.back) THEN [st EXCEPT !.exc = "AssertionError", !.self = mine]
    ELSE IF \E v \in Range(fv) : st.back.map[v] = 0
         THEN [st EXCEPT !.exc = "KeyError", !.self = mine]
    ELSE [st EXCEPT !.self =
            [none |-> FALSE,
             map |-> [v \in VarNames |->
                        IF v \in Range(fv) THEN st.back.map[v] ELSE mine.map[v]]]]

\* Frame(f_code, f_globals, f_locals, f_back): [exc, frames, heap], the
\* exception raised (""  for none), the frame heap with the new frame
\* appended (when none was raised) and f_back.cells as the constructor left
\* it, and the cell heap.
FrameInit(f_code, f_globals, f_locals, f_back) ==
    LET fid == Len(frames) + 1
        st0 == [exc |-> "", self |-> NoCells,
                back |-> IF f_back = 0 THEN NoCells ELSE frames[f_back].cells,
                heap |-> cellContents]
        st1 == FrameCellvars(f_code, f_locals, f_back, st0)
        st2 == FrameFreevars(f_code, f_back, st1)
        self == [f_code |-> f_code, f_globals |-> f_globals,
                 f_locals |-> f_locals, f_back |-> f_back,
                 f_builtins |-> FrameBuiltins(f_globals, f_back, fid),
                 cells |-> st2.self, stack |-> <<>>, f_lasti |-> 0,
                 generator |-> 0]
        touched == IF f_back = 0 THEN frames
                   ELSE [frames EXCEPT ![f_back].cells = st2.back]
    IN [exc |-> st2.exc,
        frames |-> IF st2.exc = "" THEN Append(touched, self) ELSE touched,
        heap |-> st2.heap]

-----------------------------------------------------------------------------
(* Function *)

\* Function.__init__(name, code, globs, defaults, closure, vm)
FunctionInit(code, globs, closure) ==
    [func_code |-> code, func_globals |-> globs, func_closure |-> closure]

\* inspect.getcallargs(self._func, *args): nargs positional arguments, the
\* first of them a; [ok, f_locals].  Too few or too many is a TypeError.
GetCallArgs(fn, nargs, a) ==
    LET c == Code(fn.func_code) IN
    [ok |-> nargs >= c.co_argcount - c.ndefaults /\ nargs <= c.co_argcount,
     f_locals |-> [v \in VarNames |->
                     IF c.co_argcount >= 1 /\ nargs >= 1 THEN a ELSE None]]

\* vm.make_frame(code, callargs, f_globals, f_locals): a Frame whose caller
\* is the frame the engine is running (vm.frame)
VmFrame == IF callStack = <<>> THEN 0 ELSE callStack[Len(callStack)]
make_frame(code, callargs, f_globals) ==
    FrameInit(code, f_globals, callargs, VmFrame)

\* Generator.__init__(g_frame, vm)
GeneratorInit(g_frame) ==
    [gi_frame |-> g_frame, started |-> FALSE, finished |-> FALSE]

\* Function.__call__ that runs the frame whatever the code's flags
FunctionCallRunsAlways(fn, nargs, a) ==
    LET callargs == GetCallArgs(fn, nargs, a)
        same == [kind |-> "TypeError", frames |-> frames, heap |-> cellContents,
                 gens |-> gens, callStack |-> callStack, frame |-> 0, gen |-> 0]
    IN
    IF ~callargs.ok THEN same
    ELSE
      LET mf == make_frame(fn.func_code, callargs.f_locals, fn.func_globals)
          fid == Len(mf.frames)
      IN
      IF mf.exc # ""
      THEN [same EXCEPT !.kind = mf.exc, !.frames = mf.frames, !.heap = mf.heap]
      ELSE [kind |-> "run", frames |-> mf.frames, heap |-> mf.heap,
            gens |-> gens, callStack |-> Append(callStack, fid),
            frame |-> fid, gen |-> 0]

\* Function.__call__ that builds the frame before binding the arguments
FunctionCallBindsLate(fn, nargs, a) ==
    LET callargs == GetCallArgs(fn, nargs, a)
        mf == make_frame(fn.func_code, callargs.f_locals, fn.func_globals)
        fid == Len(mf.frames)
        gid == Len(gens) + 1
        failed == [kind |-> "TypeError", frames |-> mf.frames, heap |-> mf.heap,
                   gens |-> gens, callStack |-> callStack, frame |-> 0, gen |-> 0]
    IN
    IF mf.exc # "" THEN [failed EXCEPT !.kind = mf.exc]
    ELSE IF ~callargs.ok THEN failed
    ELSE IF IsGeneratorCode(fn.func_code)
    THEN [kind |-> "generator",
          frames |-> [mf.frames EXCEPT ![fid].generator = gid],
          heap |-> mf.heap,
          gens |-> Append(gens, GeneratorInit(fid)),
          callStack |-> callStack, frame |-> fid, gen |-> gid]
    ELSE [kind |-> "run", frames |-> mf.frames, heap |-> mf.heap,
          gens |-> gens, callStack |-> Append(callStack, fid),
          frame |-> fid, gen |-> 0]

\* Function.__call__(*args): [kind, frames, heap, gens, callStack, frame, gen]
FunctionCall(fn, nargs, a) ==
    LET callargs == GetCallArgs(fn, nargs, a)
        same == [kind |-> "TypeError", frames |-> frames, heap |-> cellContents,
                 gens |-> gens, callStack |-> callStack, frame |-> 0, gen |-> 0]
    IN
    IF ~callargs.ok THEN same
    ELSE
      LET mf == make_frame(fn.func_code, callargs.f_locals, fn.func_globals)
          fid == Len(mf.frames)
          gid == Len(gens) + 1
      IN
      IF mf.exc # ""
      THEN [same EXCEPT !.kind = mf.exc, !.frames = mf.frames, !.heap = mf.heap]
      ELSE IF IsGeneratorCode(fn.func_code)
      THEN [kind |-> "generator",
            frames |-> [mf.frames EXCEPT ![fid].generator = gid],
            heap |-> mf.heap,
            gens |-> Append(gens, GeneratorInit(fid)),
            callStack |-> callStack, frame |-> fid, gen |-> gid]
      ELSE \* retval = self._vm.run_frame(frame): the engine runs the frame
           [kind |-> "run", frames |-> mf.frames, heap |-> mf.heap,
            gens |-> gens, callStack |-> Append(callStack, fid),
            frame |-> fid, gen |-> 0]

-----------------------------------------------------------------------------
(* Generator *)

\* vm.resume_frame(frame) on a generator frame: run from the frame's position
\* to the next yield, the return or an uncaught failure.  A resumed frame
\* takes the value on top of its stack as the result of the yield it was
\* paused at.  A frame with no instruction left has nothing the engine could
\* run; how the engine ends then is o.
\* [frame, finished, kind, val]: finished is what the engine makes of
\* frame.generator.finished.
ResumeFrame(fr, finished, o) ==
    LET body == Code(fr.f_code).body
        pc == fr.f_lasti
    IN
    IF pc >= Len(body)
    THEN [frame |-> fr, finished |-> finished, kind |-> o, val |-> None]
    ELSE
      LET ins == body[pc + 1]
          fr1 == [fr EXCEPT !.f_lasti = pc + 1,
                            !.stack = SubSeq(@, 1, Len(@) - 1)]
      IN
      IF ins[1] = "yield"
      THEN [frame |-> fr1, finished |-> finished, kind |-> "yield", val |-> ins[2]]
      ELSE IF ins[1] = "return"
      THEN [frame |-> fr1, finished |-> TRUE, kind |-> "return", val |-> ins[2]]
      ELSE [frame |-> fr1, finished |-> TRUE, kind |-> "failure", val |-> ins[2]]

\* how the engine may end on a frame with nothing left to run
EngineEnds(fr) ==
    IF fr.f_lasti >= Len(Code(fr.f_code).body) THEN {"failure", "return"}
    ELSE {"step"}

\* Generator.send without the first-resume check
GeneratorSendUnchecked(gi, value, o) ==
    LET g == gens[gi]
        fr == frames[g.gi_frame]
        fr1 == [fr EXCEPT !.stack = Append(@, value)]
        g1 == [g EXCEPT !.started = TRUE]
        r == ResumeFrame(fr1, g1.finished, o)
        g2 == [g1 EXCEPT !.finished = r.finished]
    IN
    IF r.kind = "failure"
    THEN [gen |-> g2, frame |-> r.frame, kind |-> "failure", val |-> r.val,
          entered |-> TRUE]
    ELSE IF g2.finished
    THEN [gen |-> g2, frame |-> r.frame, kind |-> "StopIteration",
          val |-> r.val, entered |-> TRUE]
    ELSE [gen |-> g2, frame |-> r.frame, kind |-> "value", val |-> r.val,
          entered |-> TRUE]

\* Generator.send that gives back whatever resume_frame returned, without
\* looking at self.finished
GeneratorSendReturnsAll(gi, value, o) ==
    LET g == gens[gi]
        fr == frames[g.gi_frame]
    IN
    IF ~g.started /\ value # None
    THEN [gen |-> g, frame |-> fr, kind |-> "TypeError", val |-> None,
          entered |-> FALSE]
    ELSE
      LET fr1 == [fr EXCEPT !.stack = Append(@, value)]
          g1 == [g EXCEPT !.started = TRUE]
          r == ResumeFrame(fr1, g1.finished, o)
          g2 == [g1 EXCEPT !.finished = r.finished]
      IN
      IF r.kind = "failure"
      THEN [gen |-> g2, frame |-> r.frame, kind |-> "failure", val |-> r.val,
            entered |-> TRUE]
      ELSE [gen |-> g2, frame |-> r.frame, kind |-> "value", val |-> r.val,
            entered |-> TRUE]

\* Generator.send(value): [gen, frame, kind, val, entered]
GeneratorSend(gi, value, o) ==
    LET g == gens[gi]
        fr == frames[g.gi_frame]
    IN
    IF ~g.started /\ value # None
    THEN [gen |-> g, frame |-> fr, kind |-> "TypeError", val |-> None,
          entered |-> FALSE]
    ELSE
      LET fr1 == [fr EXCEPT !.stack = Append(@, value)]
          g1 == [g EXCEPT !.started = TRUE]
          r == ResumeFrame(fr1, g1.finished, o)
          g2 == [g1 EXCEPT !.finished = r.finished]
      IN
      IF r.kind = "failure"
      THEN [gen |-> g2, frame |-> r.frame, kind |-> "failure", val |-> r.val,
            entered |-> TRUE]
      ELSE IF g2.finished
      THEN [gen |-> g2, frame |-> r.frame, kind |-> "StopIteration",
            val |-> r.val, entered |-> TRUE]
      ELSE [gen |-> g2, frame |-> r.frame, kind |-> "value", val |-> r.val,
            entered |-> TRUE]

-----------------------------------------------------------------------------
(* The interpreted program: the steps of the frame the engine is running *)

NoLocals == [v \in VarNames |-> None]

\* vm.run_code(code, f_globals): the top frame of a run
RunCode(g) ==
    /\ callStack = <<>>
    /\ Len(frames) < MaxFrames
    /\ LET mf == make_frame("module", NoLocals, g) IN
         /\ mf.exc = ""
         /\ frames' = mf.frames
         /\ cellContents' = mf.heap
         /\ callStack' = <<Len(mf.frames)>>
         /\ last' = [NoLast EXCEPT !.op = "run_code", !.kind = "run",
                                   !.frame = Len(mf.frames), !.entered = TRUE]
    /\ UNCHANGED <<funcs, gens, globalsTab>>

\* MAKE_FUNCTION / MAKE_CLOSURE in the running frame: a Function over code c,
\* the frame's globals and, for c's free variables, the frame's cells
MakeFunction(c) ==
    /\ callStack # <<>>
    /\ LET f == frames[VmFrame]
           fv == Range(Code(c).co_freevars)
       IN
       /\ c \in Code(f.f_code).defines
       /\ Cardinality(funcs) < MaxFuncs
       /\ \A v \in fv : f.cells.map[v] # 0
       /\ LET fn == FunctionInit(c, f.f_globals,
                        [v \in VarNames |-> IF v \in fv THEN f.cells.map[v] ELSE 0])
          IN /\ funcs' = funcs \cup {fn}
             /\ last' = [NoLast EXCEPT !.op = "make_function", !.fn = fn,
                                       !.frame = VmFrame]
    /\ UNCHANGED <<frames, cellContents, gens, callStack, globalsTab>>

\* CALL_FUNCTION in the running frame
CallFunction(fn, nargs, a) ==
    /\ callStack # <<>>
    /\ Len(frames) < MaxFrames
    /\ Len(callStack) < MaxDepth
    /\ IsGeneratorCode(fn.func_code) => Len(gens) < MaxGens
    /\ LET r == FunctionCall(fn, nargs, a) IN
         /\ frames' = r.frames
         /\ cellContents' = r.heap
         /\ gens' = r.gens
         /\ callStack' = r.callStack
         /\ last' = [NoLast EXCEPT !.op = "call", !.kind = r.kind,
                                   !.frame = r.frame, !.gen = r.gen,
                                   !.fn = fn, !.nargs = nargs,
                                   !.entered = (r.kind = "run")]
    /\ UNCHANGED <<funcs, globalsTab>>

\* RETURN_VALUE: run_frame ends and gives the value to the caller
ReturnValue(v) ==
    /\ callStack # <<>>
    /\ callStack' = SubSeq(callStack, 1, Len(callStack) - 1)
    /\ last' = [NoLast EXCEPT !.op = "return", !.kind = "return", !.val = v,
                              !.frame = VmFrame]
    /\ UNCHANGED <<frames, cellContents, funcs, gens, globalsTab>>

\* an uncaught failure: run_frame ends and raises in the caller
RaiseUncaught ==
    /\ callStack # <<>>
    /\ callStack' = SubSeq(callStack, 1, Len(callStack) - 1)
    /\ last' = [NoLast EXCEPT !.op = "raise", !.kind = "failure",
                              !.frame = VmFrame]
    /\ UNCHANGED <<frames, cellContents, funcs, gens, globalsTab>>

\* STORE_DEREF x
StoreDeref(v) ==
    /\ callStack # <<>>
    /\ frames[VmFrame].cells.map["x"] # 0
    /\ cellContents' = CellSet(cellContents, frames[VmFrame].cells.map["x"], v)
    /\ last' = [NoLast EXCEPT !.op = "store", !.val = v, !.frame = VmFrame]
    /\ UNCHANGED <<frames, funcs, gens, callStack, globalsTab>>

\* LOAD_DEREF x
LoadDeref ==
    /\ callStack # <<>>
    /\ frames[VmFrame].cells.map["x"] # 0
    /\ last' = [NoLast EXCEPT !.op = "load", !.frame = VmFrame,
                  !.val = CellGet(cellContents, frames[VmFrame].cells.map["x"])]
    /\ UNCHANGED <<frames, cellContents, funcs, gens, callStack, globalsTab>>

\* next(gen) / gen.send(value) in the running frame
Send(gi, value) ==
    /\ callStack # <<>>
    /\ gi \in DOMAIN gens
    /\ Len(frames[gens[gi].gi_frame].stack) < MaxStack
    /\ \E o \in EngineEnds(frames[gens[gi].gi_frame]) :
         LET r == GeneratorSend(gi, value, o) IN
           /\ gens' = [gens EXCEPT ![gi] = r.gen]
           /\ frames' = [frames EXCEPT ![gens[gi].gi_frame] = r.frame]
           /\ last' = [NoLast EXCEPT !.op = "send", !.kind = r.kind,
                                     !.val = r.val, !.gen = gi,
                                     !.sent = value,
                                     !.frame = gens[gi].gi_frame,
                                     !.entered = r.entered]
    /\ UNCHANGED <<cellContents, funcs, callStack, globalsTab>>

VmInit ==
    /\ frames = <<>>
    /\ cellContents = <<>>
    /\ funcs = {}
    /\ gens = <<>>
    /\ callStack = <<>>
    /\ globalsTab \in [GlobalsIds -> BuiltinsEntries]
    /\ last = NoLast

-----------------------------------------------------------------------------
(* Frame.line_number *)

ByteDeltas == {0, 4, 6}
LineDeltas == {1, 2, 10}
FirstLines == {1, 10}
Offsets == {0, 7, 12}

\* co_lnotab: bytes, alternately a byte delta and a line delta
LnotabOfPairs(n) ==
    {t \in [1..(2 * n) -> ByteDeltas \cup LineDeltas] :
        \A i \in 1..(2 * n) :
            IF i % 2 = 1 THEN t[i] \in ByteDeltas ELSE t[i] \in LineDeltas}
Lnotabs == UNION {LnotabOfPairs(n) : n \in 0..MaxPairs}

\* the pass with the line delta added before the offset is compared
LineNumberIterAddsFirst(tab, f_lasti, st) ==
    LET byte_incr == tab[st.i + 1]
        line_incr == tab[st.i + 2]
        b == st.byte_num + byte_incr
    IN [i |-> st.i + 2, byte_num |-> b, line_num |-> st.line_num + line_incr,
        brk |-> b > f_lasti]

\* One pass of the while loop over st = [i, byte_num, line_num, brk]
LineNumberIter(tab, f_lasti, st) ==
    LET byte_incr == tab[st.i + 1]
        line_incr == tab[st.i + 2]
        b == st.byte_num + byte_incr
    IN
    IF b > f_lasti
    THEN [i |-> st.i + 2, byte_num |-> b, line_num |-> st.line_num, brk |-> TRUE]
    ELSE [i |-> st.i + 2, byte_num |-> b, line_num |-> st.line_num + line_incr,
          brk |-> FALSE]

\* line_number is called on a frame: byte_num = 0, line_num = co_firstlineno
LineNumberEnter ==
    /\ ln_pc = "call"
    /\ ln_i' = 0
    /\ byte_num' = 0
    /\ line_num' = firstlineno
    /\ ln_pc' = "while"
    /\ UNCHANGED <<lnotab, firstlineno, lasti>>

LineNumberLoop ==
    /\ ln_pc = "while"
    /\ ln_i < Len(lnotab)
    /\ LET st == LineNumberIter(lnotab, lasti,
                   [i |-> ln_i, byte_num |-> byte_num, line_num |-> line_num,
                    brk |-> FALSE])
       IN /\ ln_i' = st.i
          /\ byte_num' = st.byte_num
          /\ line_num' = st.line_num
          /\ ln_pc' = IF st.brk THEN "return" ELSE "while"
    /\ UNCHANGED <<lnotab, firstlineno, lasti>>

LineNumberExit ==
    /\ ln_pc = "while"
    /\ ln_i >= Len(lnotab)
    /\ ln_pc' = "return"
    /\ UNCHANGED <<lnotab, firstlineno, lasti, ln_i, byte_num, line_num>>

LnIdle ==
    /\ lnotab = <<>> /\ firstlineno = 1 /\ lasti = 0
    /\ ln_pc = "idle" /\ ln_i = 0 /\ byte_num = 0 /\ line_num = 0

LnInit ==
    /\ lnotab \in Lnotabs
    /\ firstlineno \in FirstLines
    /\ lasti \in Offsets
    /\ ln_pc = "call" /\ ln_i = 0 /\ byte_num = 0 /\ line_num = 0

-----------------------------------------------------------------------------
(* run_python_file *)

MainMods == {"M0", "Mprog"}
Argvs == {"A0", "Aprog"}
PathEntries == {"P0", "Pprog"}
NoOld == [main |-> "", argv |-> "", path0 |-> ""]
NoArgs == [args |-> "", package |-> FALSE]

\* Lines 108-123: the new __main__ module replaces the old one, argv and
\* sys.path[0] are saved and set.  sys.path[0] of an empty sys.path raises
\* IndexError, after sys.modules["__main__"] was replaced.
LoaderSetup(args, package) ==
    IF syspath = <<>>
    THEN [main |-> "Mtmp", argv |-> sysargv, path |-> syspath,
          old |-> [main |-> sysmod, argv |-> sysargv, path0 |-> ""],
          exc |-> "IndexError"]
    ELSE [main |-> "Mtmp", argv |-> args,
          path |-> [syspath EXCEPT ![1] = IF package THEN "" ELSE "Pdir"],
          old |-> [main |-> sysmod, argv |-> sysargv, path0 |-> syspath[1]],
          exc |-> ""]

\* Lines 145-151, the finally block: st = [main, argv, path, exc]
LoaderFinally(old, exc) ==
    IF syspath = <<>>
    THEN [main |-> old.main, argv |-> old.argv, path |-> syspath,
          exc |-> "IndexError"]
    ELSE [main |-> old.main, argv |-> old.argv,
          path |-> [syspath EXCEPT ![1] = old.path0], exc |-> exc]

RunPythonFile(args, package) ==
    /\ ld_pc = "idle"
    /\ LET st == LoaderSetup(args, package) IN
         /\ sysmod' = st.main
         /\ sysargv' = st.argv
         /\ syspath' = st.path
         /\ ld_old' = st.old
         /\ ld_exc' = st.exc
         /\ ld_pc' = IF st.exc = "" THEN "try" ELSE "exit"
    /\ ld_entry' = [main |-> sysmod, argv |-> sysargv, path |-> syspath]
    /\ ld_args' = [args |-> args, package |-> package]

\* open_source(filename) raises IOError: NoSource is raised
OpenFails ==
    /\ ld_pc = "try"
    /\ ld_exc' = "NoSource"
    /\ ld_pc' = "finally"
    /\ UNCHANGED <<sysmod, sysargv, syspath, ld_old, ld_entry, ld_args>>

\* compile(source, filename, "exec") raises
CompileFails ==
    /\ ld_pc = "try"
    /\ ld_exc' = "SyntaxError"
    /\ ld_pc' = "finally"
    /\ UNCHANGED <<sysmod, sysargv, syspath, ld_old, ld_entry, ld_args>>

\* exec_code_object(code, main_mod.__dict__) starts the program
ExecCodeObject ==
    /\ ld_pc = "try"
    /\ ld_pc' = "exec"
    /\ UNCHANGED <<sysmod, sysargv, syspath, ld_old, ld_entry, ld_args, ld_exc>>

\* The executed program assigns sys.modules["__main__"], sys.argv, sys.path[0]
ProgramSetsMain(m) ==
    /\ ld_pc = "exec"
    /\ sysmod' = m
    /\ UNCHANGED <<sysargv, syspath, ld_pc, ld_old, ld_entry, ld_args, ld_exc>>

ProgramSetsArgv(a) ==
    /\ ld_pc = "exec"
    /\ sysargv' = a
    /\ UNCHANGED <<sysmod, syspath, ld_pc, ld_old, ld_entry, ld_args, ld_exc>>

\* sys.path.insert(0, p)
ProgramInsertsPath(p) ==
    /\ ld_pc = "exec"
    /\ Len(syspath) < MaxPath
    /\ syspath' = <<p>> \o syspath
    /\ UNCHANGED <<sysmod, sysargv, ld_pc, ld_old, ld_entry, ld_args, ld_exc>>

\* del sys.path[0]
ProgramDeletesPath ==
    /\ ld_pc = "exec"
    /\ syspath # <<>>
    /\ syspath' = Tail(syspath)
    /\ UNCHANGED <<sysmod, sysargv, ld_pc, ld_old, ld_entry, ld_args, ld_exc>>

\* the program ends, normally or with an uncaught failure
ProgramEnds(exc) ==
    /\ ld_pc = "exec"
    /\ ld_exc' = exc
    /\ ld_pc' = "finally"
    /\ UNCHANGED <<sysmod, sysargv, syspath, ld_old, ld_entry, ld_args>>

Finally ==
    /\ ld_pc = "finally"
    /\ LET st == LoaderFinally(ld_old, ld_exc) IN
         /\ sysmod' = st.main
         /\ sysargv' = st.argv
         /\ syspath' = st.path
         /\ ld_exc' = st.exc
    /\ ld_pc' = "exit"
    /\ UNCHANGED <<ld_old, ld_entry, ld_args>>

\* the caller of run_python_file goes on, and may call it again
LoaderReturns ==
    /\ ld_pc = "exit"
    /\ ld_pc' = "idle"
    /\ ld_exc' = ""
    /\ ld_old' = NoOld
    /\ ld_args' = NoArgs
    /\ UNCHANGED <<sysmod, sysargv, syspath, ld_entry>>

LdIdle ==
    /\ sysmod = "M0" /\ sysargv = "A0" /\ syspath = <<"P0">>
    /\ ld_pc = "idle" /\ ld_old = NoOld
    /\ ld_entry = [main |-> "M0", argv |-> "A0", path |-> <<"P0">>]
    /\ ld_args = NoArgs /\ ld_exc = ""

LdInit ==
    /\ sysmod = "M0"
    /\ sysargv \in Argvs
    /\ syspath \in {<<p>> : p \in PathEntries} \cup {<<p, "P1">> : p \in PathEntries}
    /\ ld_pc = "idle" /\ ld_old = NoOld
    /\ ld_entry = [main |-> sysmod, argv |-> sysargv, path |-> syspath]
    /\ ld_args = NoArgs /\ ld_exc = ""

-----------------------------------------------------------------------------
(* Specifications *)

NoBuiltins == [g \in GlobalsIds |-> Absent]

\* The closure program: one run of a module whose nested functions share
\* variables through cells
Init == VmInit /\ globalsTab = NoBuiltins /\ LnIdle /\ LdIdle

Next ==
    /\ \/ RunCode("GA") /\ frames = <<>>
       \/ \E c \in ClosureCodes : MakeFunction(c)
       \/ \E fn \in funcs, nargs \in ArgCounts, a \in ArgVals : CallFunction(fn, nargs, a)
       \/ \E v \in ArgVals : ReturnValue(v)
       \/ RaiseUncaught
       \/ \E v \in StoreVals : StoreDeref(v)
       \/ LoadDeref
    /\ UNCHANGED <<lnVars, ldVars>>

Spec == Init /\ [][Next]_vars

\* The generator program: one run of a module whose generator functions are
\* made, called and resumed
GenInit == VmInit /\ globalsTab = NoBuiltins /\ LnIdle /\ LdIdle

GenNext ==
    /\ \/ RunCode("GA") /\ frames = <<>>
       \/ \E c \in GeneratorCodes : MakeFunction(c)
       \/ \E fn \in funcs, nargs \in 0..1, a \in ArgVals : CallFunction(fn, nargs, a)
       \/ \E v \in ArgVals : ReturnValue(v)
       \/ \E gi \in 1..MaxGens, v \in SendVals : Send(gi, v)
    /\ UNCHANGED <<lnVars, ldVars>>

SpecGen == GenInit /\ [][GenNext]_vars

\* Runs of modules under either globals mapping, whose functions outlive the
\* run that made them
BuiltinsInit == VmInit /\ LnIdle /\ LdIdle

BuiltinsNext ==
    /\ \/ \E g \in GlobalsIds : RunCode(g)
       \/ MakeFunction("plain")
       \/ \E fn \in funcs, nargs \in 0..1, a \in ArgVals : CallFunction(fn, nargs, a)
       \/ \E v \in ArgVals : ReturnValue(v)
    /\ UNCHANGED <<lnVars, ldVars>>

SpecBuiltins == BuiltinsInit /\ [][BuiltinsNext]_vars

LineInit == LnInit /\ VmInit /\ globalsTab = NoBuiltins /\ LdIdle

LineNext ==
    /\ \/ LineNumberEnter
       \/ LineNumberLoop
       \/ LineNumberExit
    /\ UNCHANGED <<vmVars, ldVars>>

SpecLine == LineInit /\ [][LineNext]_vars

LoaderInit == LdInit /\ VmInit /\ globalsTab = NoBuiltins /\ LnIdle

LoaderNext ==
    /\ \/ \E a \in {"A1"}, p \in BOOLEAN : RunPythonFile(a, p)
       \/ OpenFails
       \/ CompileFails
       \/ ExecCodeObject
       \/ \E m \in MainMods : ProgramSetsMain(m)
       \/ \E a \in Argvs : ProgramSetsArgv(a)
       \/ \E p \in PathEntries : ProgramInsertsPath(p)
       \/ ProgramDeletesPath
       \/ \E e \in {"", "failure"} : ProgramEnds(e)
       \/ Finally
       \/ LoaderReturns
    /\ UNCHANGED <<vmVars, lnVars>>

SpecLoader == LoaderInit /\ [][LoaderNext]_vars

-----------------------------------------------------------------------------
(* Generators: the claims *)

GenFrame(gi) == gens[gi].gi_frame
GenBody(gi) == Code(frames[GenFrame(gi)].f_code).body
\* this step is a send on generator gi
SendStep(gi) == gi \in DOMAIN gens /\ last'.op = "send" /\ last'.gen = gi
\* what the caller of send gets for instruction ins of the frame
Outcome(ins) ==
    CASE ins[1] = "yield" -> <<"value", ins[2]>>
      [] ins[1] = "return" -> <<"StopIteration", ins[2]>>
      [] OTHER -> <<"failure", ins[2]>>

\* C1: a send on a generator whose finished flag is set signals exhaustion
\* (StopIteration) without entering the engine on gi_frame and without
\* changing the frame's value stack.
C1_FinishedResume ==
    [][\A gi \in 1..MaxGens :
         (SendStep(gi) /\ gens[gi].finished) =>
            /\ last'.kind = "StopIteration"
            /\ ~last'.entered
            /\ frames'[GenFrame(gi)].stack = frames[GenFrame(gi)].stack]_vars

\* C2: driven by next()/send(None), a generator that is not finished and
\* whose frame has completed k of its instructions gives the caller exactly
\* the (k+1)-th: a yielded value is returned (the generator then suspended at
\* position k+1), the return value is the payload of StopIteration (the
\* generator then finished), never an ordinary value; and nothing but a send
\* moves a generator's frame.
C2_Sequencing ==
    [][\A gi \in 1..MaxGens :
         /\ (SendStep(gi) /\ last'.sent = None /\ ~gens[gi].finished) =>
              LET k == frames[GenFrame(gi)].f_lasti
                  ins == GenBody(gi)[k + 1]
              IN /\ <<last'.kind, last'.val>> = Outcome(ins)
                 /\ frames'[GenFrame(gi)].f_lasti = k + 1
                 /\ gens'[gi].started
                 /\ gens'[gi].finished = (ins[1] # "yield")
         /\ (gi \in DOMAIN gens /\ last'.op # "send") =>
              /\ frames'[GenFrame(gi)] = frames[GenFrame(gi)]
              /\ gens'[gi] = gens[gi]]_vars

\* C2 witness: the generator yielding v1, v2, v3 has just signalled
\* exhaustion with payload "done" on its fourth resume
C2_Witness ==
    /\ last.op = "send" /\ last.kind = "StopIteration" /\ last.val = "done"
    /\ last.gen \in DOMAIN gens
    /\ frames[GenFrame(last.gen)].f_code = "gen3"
    /\ frames[GenFrame(last.gen)].f_lasti = 4
    /\ gens[last.gen].finished

\* the frame of generator gi ended by an uncaught failure
EndedByFailure(gi) ==
    LET k == frames[GenFrame(gi)].f_lasti IN
    k >= 1 /\ k <= Len(GenBody(gi)) /\ GenBody(gi)[k][1] = "raise"

\* C3: a send that ends by an uncaught failure of the frame propagates the
\* failure and leaves the generator finished, and every later send on it
\* signals exhaustion rather than running the frame again.
C3_FailureFinishes ==
    [][\A gi \in 1..MaxGens :
         /\ (SendStep(gi) /\ ~gens[gi].finished /\ last'.kind = "failure") =>
              gens'[gi].finished
         /\ (SendStep(gi) /\ gens[gi].finished /\ EndedByFailure(gi)) =>
              /\ last'.kind = "StopIteration"
              /\ ~last'.entered]_vars

\* C4: send(value) with value not None on a generator not yet started raises
\* TypeError and changes nothing (neither the generator nor its frame, which
\* is not resumed); send(None) on it then performs the first step; a started,
\* unfinished generator accepts any value.
C4_FirstResume ==
    [][\A gi \in 1..MaxGens :
         /\ (SendStep(gi) /\ ~gens[gi].started /\ last'.sent # None) =>
              /\ last'.kind = "TypeError"
              /\ ~last'.entered
              /\ gens' = gens
              /\ frames' = frames
         /\ (SendStep(gi) /\ ~gens[gi].started /\ last'.sent = None) =>
              /\ last'.kind # "TypeError"
              /\ last'.entered
              /\ gens'[gi].started
              /\ frames'[GenFrame(gi)].f_lasti = 1
              /\ frames'[GenFrame(gi)].stack = <<>>
         /\ (SendStep(gi) /\ gens[gi].started /\ ~gens[gi].finished) =>
              /\ last'.kind # "TypeError"
              /\ last'.entered]_vars

\* C4 witness: a value was sent to a generator that had not started, which
\* raised TypeError and left it not started
C4_Witness ==
    /\ last.op = "send" /\ last.kind = "TypeError" /\ last.sent = "s1"
    /\ last.gen \in DOMAIN gens
    /\ ~gens[last.gen].started
    /\ frames[GenFrame(last.gen)].stack = <<>>

\* C5: a call of a Function over generator code gives a Generator linked both
\* ways with its new frame, not started and not finished, and does not run
\* the frame: a generator that was never resumed has a frame at its first
\* instruction with an empty stack, and a generator frame is never run by the
\* call.  A call of a Function over other code runs the new frame.
C5_LazyGenerator ==
    /\ \A gi \in DOMAIN gens :
         /\ frames[GenFrame(gi)].generator = gi
         /\ IsGeneratorCode(frames[GenFrame(gi)].f_code)
         /\ ~gens[gi].started =>
              /\ ~gens[gi].finished
              /\ frames[GenFrame(gi)].f_lasti = 0
              /\ frames[GenFrame(gi)].stack = <<>>
    /\ \A i \in DOMAIN callStack :
         /\ ~IsGeneratorCode(frames[callStack[i]].f_code)
         /\ frames[callStack[i]].generator = 0
    /\ (last.op = "call" /\ last.kind # "TypeError") =>
         IF IsGeneratorCode(last.fn.func_code)
         THEN /\ last.kind = "generator"
              /\ ~last.entered
              /\ last.gen = Len(gens)
              /\ last.frame = Len(frames)
              /\ gens[last.gen] = [gi_frame |-> last.frame, started |-> FALSE,
                                   finished |-> FALSE]
              /\ frames[last.frame].f_code = last.fn.func_code
              /\ callStack # <<>> /\ callStack[Len(callStack)] # last.frame
         ELSE /\ last.kind = "run"
              /\ last.entered
              /\ last.frame = Len(frames)
              /\ callStack[Len(callStack)] = last.frame
              /\ frames[last.frame].f_code = last.fn.func_code
              /\ Len(gens) = 0 \/ GenFrame(Len(gens)) # last.frame

\* C5 witness: a generator function was just called
C5_Witness ==
    /\ last.op = "call" /\ last.kind = "generator"
    /\ last.fn.func_code = "gen3"
    /\ ~gens[last.gen].started

-----------------------------------------------------------------------------
(* Frames, cells and calls: the claims *)

\* C6: a frame made to run a closure over x holds in cells[x] the very Cell
\* of the closure (the one the defining frame made for x), also after the
\* enclosing function was called again under the same caller.
C6_CellIdentity ==
    (last.op = "call" /\ last.kind = "run" /\ last.fn.func_closure["x"] # 0) =>
        frames[last.frame].cells.map["x"] = last.fn.func_closure["x"]

\* the call has too few or too many arguments for the function, counting
\* its defaults
ArityBad(fn, nargs) ==
    \/ nargs < Code(fn.func_code).co_argcount - Code(fn.func_code).ndefaults
    \/ nargs > Code(fn.func_code).co_argcount

\* C7: a call with too few or too many arguments raises TypeError, and a call
\* that raises TypeError has built no frame and no generator, has changed no
\* frame (the caller's cells table included) and no cell, and has run nothing.
C7_ArityFirst ==
    [][last'.op = "call" =>
         /\ ArityBad(last'.fn, last'.nargs) => last'.kind = "TypeError"
         /\ last'.kind = "TypeError" =>
              /\ ArityBad(last'.fn, last'.nargs)
              /\ ~last'.entered
              /\ UNCHANGED <<frames, cellContents, gens, callStack, funcs>>]_vars

\* C7 witness: a call of outer (whose frame would have put a cell in the
\* caller's table) failed on its argument count, made from a frame that has a
\* cells table
C7_Witness ==
    /\ last.op = "call" /\ last.kind = "TypeError"
    /\ last.fn.func_code = "outer" /\ last.nargs = 3
    /\ callStack # <<>>
    /\ CellsTruthy(frames[VmFrame].cells)

\* C8: a frame with a caller whose globals mapping is the same object has the
\* caller's builtins object; any other frame has what its globals'
\* "__builtins__" entry gives (a module-like value giving its dictionary), or,
\* without that entry, a minimal mapping of its own.
C8_Builtins ==
    \A f \in DOMAIN frames :
        LET b == frames[f].f_back
            g == frames[f].f_globals
            e == globalsTab[g]
        IN
        IF b # 0 /\ frames[b].f_globals = g
        THEN frames[f].f_builtins = frames[b].f_builtins
        ELSE frames[f].f_builtins =
               CASE e.kind = "absent" -> [kind |-> "default", id |-> f]
                 [] e.kind = "module" -> [kind |-> "dict", id |-> e.id + 10]
                 [] OTHER -> e

\* C8 witness: a frame whose caller has another globals mapping with the same
\* contents (no "__builtins__"), and which did not take the caller's builtins
C8_Witness ==
    \E f \in DOMAIN frames :
        LET b == frames[f].f_back IN
        /\ b # 0
        /\ frames[b].f_globals # frames[f].f_globals
        /\ globalsTab[frames[b].f_globals] = globalsTab[frames[f].f_globals]
        /\ globalsTab[frames[f].f_globals] = Absent
        /\ frames[f].f_builtins # frames[b].f_builtins

-----------------------------------------------------------------------------
(* line_number: the claims *)

RECURSIVE SumBytes(_, _), SumLines(_, _)
\* the byte offset and the line delta accumulated over the first k pairs
SumBytes(tab, k) == IF k = 0 THEN 0 ELSE SumBytes(tab, k - 1) + tab[2 * k - 1]
SumLines(tab, k) == IF k = 0 THEN 0 ELSE SumLines(tab, k - 1) + tab[2 * k]

\* the pairs before the first one whose accumulated byte offset exceeds off
PairsBefore(tab, off) ==
    LET n == Len(tab) \div 2
        over == {k \in 1..n : SumBytes(tab, k) > off}
    IN IF over = {} THEN n
       ELSE (CHOOSE k \in over : \A j \in over : k <= j) - 1

ExampleTable == <<0, 10, 6, 1, 4, 2>>
ExampleCall == ln_pc = "return" /\ lnotab = ExampleTable /\ firstlineno = 10

\* C9 as stated: for starting line 10 and table [(0,10),(6,1),(4,2)],
\* line_number gives 11 at offset 7 and 13 at offset 12.
C9_ExampleAsStated ==
    ExampleCall => /\ lasti = 7 => line_num = 11
                   /\ lasti = 12 => line_num = 13

\* C9 amended: line_number gives the starting line plus the line deltas of
\* the pairs before the first pair whose accumulated byte offset exceeds the
\* instruction offset; for starting line 10 and table [(0,10),(6,1),(4,2)]
\* that is 21 at offset 7 and 23 at offset 12.
C9_LineNumber ==
    /\ ln_pc = "return" =>
         line_num = firstlineno + SumLines(lnotab, PairsBefore(lnotab, lasti))
    /\ ExampleCall => /\ lasti = 7 => line_num = 21
                      /\ lasti = 12 => line_num = 23

\* C9 witness: line_number has returned for the example at offset 7
C9_Witness == ExampleCall /\ lasti = 7 /\ line_num = 21 /\ ln_i = 6

-----------------------------------------------------------------------------
(* run_python_file: the claims *)

\* C10: when run_python_file is left, normally or by an exception,
\* sys.modules["__main__"], sys.argv and sys.path[0] are what they were when
\* it was entered.
C10_ContextRestored ==
    ld_pc = "exit" =>
        /\ sysmod = ld_entry.main
        /\ sysargv = ld_entry.argv
        /\ ld_entry.path # <<>> => (syspath # <<>> /\ syspath[1] = ld_entry.path[1])

\* What the finally block does achieve: a call that found sys.path[0] and
\* whose program left sys.path with an entry restores all three.
RestoredWhenPathKept ==
    (ld_pc = "exit" /\ ld_entry.path # <<>> /\ syspath # <<>>) =>
        /\ sysmod = ld_entry.main
        /\ sysargv = ld_entry.argv
        /\ syspath[1] = ld_entry.path[1]

====
